---- MODULE Spec2Model ----
(***************************************************************************)
(* Model of the compliance transaction service (src/app/main.py): an       *)
(* in-memory dict of transaction records behind six Flask handlers, five   *)
(* of them wrapped by the audit_log decorator.  Requests are served one at  *)
(* a time, each handler from start to finish.                              *)
(*                                                                         *)
(* JSON values are pairs <<type, text>>; a JSON object is a function from  *)
(* field names to JSON values.  The store is a Python dict: a sequence of  *)
(* entries with unique keys, kept in insertion order.                      *)
(*                                                                         *)
(*   compliance_data  the store                                            *)
(*   log              the lines the latest audited request appended to     *)
(*                    audit.log (the file is append-only and never read,   *)
(*                    so the lines of earlier requests are not kept)       *)
(*   request          the latest request: handler and argument             *)
(*   response         the latest response: status code and JSON body       *)
(*   accepted         history: for each transaction_id whose create was    *)
(*                    answered 201 and that no DELETE was addressed to     *)
(*                    since, the transaction_id and amount submitted       *)
(*   life             history: "created" or "deleted", the latest          *)
(*                    successful create or delete of each key              *)
(*   threads          the request each worker thread is serving: its       *)
(*                    position in the handler, its locals and its response *)
(*                                                                         *)
(* Spec serves requests one at a time (threads stay idle).  ConcSpec has   *)
(* the worker threads of the threaded server serve one request each, the   *)
(* handlers interleaving between their operations on compliance_data; log  *)
(* is then the whole audit log, and each thread's request and response     *)
(* are in threads.                                                         *)
(***************************************************************************)
EXTENDS Integers, Sequences, FiniteSets, TLC

VARIABLES compliance_data, log, request, response, accepted, life, threads

vars == <<compliance_data, log, request, response, accepted, life, threads>>

(* ------------------------------ bounds -------------------------------- *)

\* Worker threads serving requests at the same time.
NThreads == 2

(* --------------------------- JSON values ------------------------------ *)

JStr(s) == <<"string", s>>
JNum(s) == <<"number", s>>
JArr(s) == <<"array", s>>

\* Python's hash(): str, int, float, bool and None are hashable; list and
\* dict (JSON arrays and objects) raise TypeError when used as a dict key.
Hashable(v) == v[1] \in {"string", "number", "boolean", "null"}

\* Text of a value as it appears in a URL path segment.
UrlOf(v) == v[2]

\* The <transaction_id> path converter always hands the view a str.
PathParam(s) == JStr(s)

(* --------------------------- Python dict ------------------------------ *)

\* Keys are compared as JSON values: a str key never equals an int key.

Keys(d) == {d[i].key : i \in 1..Len(d)}

Contains(d, k) == \E i \in 1..Len(d) : d[i].key = k

IndexOf(d, k) == CHOOSE i \in 1..Len(d) : d[i].key = k

GetItem(d, k) == d[IndexOf(d, k)].value

\* Mutant: dict.update() on the prior value instead of replacing it.
SetItem_merge(d, k, v) ==
    IF Contains(d, k)
    THEN [d EXCEPT ![IndexOf(d, k)] = [key |-> k, value |-> v @@ GetItem(d, k)]]
    ELSE Append(d, [key |-> k, value |-> v])

\* d[k] = v: replaces the value in place when k is a key, appends otherwise.
SetItem(d, k, v) ==
    IF Contains(d, k)
    THEN [d EXCEPT ![IndexOf(d, k)] = [key |-> k, value |-> v]]
    ELSE Append(d, [key |-> k, value |-> v])

\* Mutant: removes the oldest entry, whatever its key.
DelItem_oldest(d, k) == Tail(d)

\* del d[k]
DelItem(d, k) ==
    LET i == IndexOf(d, k)
    IN  [j \in 1..(Len(d) - 1) |-> IF j < i THEN d[j] ELSE d[j + 1]]

\* Mutant: the newest record is left out.
Values_but_last(d) == [i \in 1..(Len(d) - 1) |-> d[i].value]

\* list(d.values())
Values(d) == [i \in 1..Len(d) |-> d[i].value]

(* ------------------------------ inputs -------------------------------- *)

required_fields == <<"transaction_id", "amount", "timestamp", "status">>

RequiredSet == {required_fields[i] : i \in 1..Len(required_fields)}

ServerFields == {"created_at", "last_modified"}

\* Values a caller may submit for each field.  transaction_id and status
\* range over strings, a number and an array: validation checks presence
\* only, so any JSON type reaches the handler.
FieldValues(f) ==
    CASE f = "transaction_id" -> {JStr("1001"), JNum("1001"), JArr("[1001]")}
      [] f = "amount"         -> {JNum("1000.0"), JNum("250.5")}
      [] f = "timestamp"      -> {JStr("2025-01-29T10:00:00")}
      [] f = "status"         -> {JStr("compliant"), JStr("pending"), JArr("[]")}
      [] f = "note"           -> {JStr("manual review")}
      [] f = "created_at"     -> {JStr("1999-12-31T23:59:59")}

OptionalFields == {{}, {"note"}, {"created_at"}}

\* The JSON object with the fields of `present`, valued by tid, amt, st.
Object(present, tid, amt, st) ==
    [f \in present |->
        CASE f = "transaction_id" -> tid
          [] f = "amount"         -> amt
          [] f = "status"         -> st
          [] OTHER                -> CHOOSE v \in FieldValues(f) : TRUE]

\* Bodies holding all four required fields, in every combination of values,
\* with or without one additional field.
CompletePayloads ==
    { Object(RequiredSet \cup opt, tid, amt, st) :
        opt \in OptionalFields,
        tid \in FieldValues("transaction_id"),
        amt \in FieldValues("amount"),
        st \in FieldValues("status") }

\* Bodies lacking one or more required fields, in every combination of the
\* fields present (validation never looks at a value).
IncompletePayloads ==
    { Object(req, JStr("1001"), JNum("1000.0"), JStr("compliant")) :
        req \in (SUBSET RequiredSet) \ {RequiredSet} }

\* JSON object bodies of POST requests.
Payloads == CompletePayloads \cup IncompletePayloads

\* Strings a client may put in the <transaction_id> path segment.
PathIds == {"1001", "NONEXISTENT"}

\* Readings of datetime.now().  No handler compares readings or branches
\* on one; they only end up in records, responses and log lines.
Clock == {"2026-11-02T09:00:00.000001"}

isoformat(t) == JStr(t)

(* ------------------------------ logging ------------------------------- *)

\* A line of audit.log: the logging call that wrote it and the handler.
Line(kind, op) == [kind |-> kind, op |-> op]

\* Outcome of a view function: the store it leaves, the lines it logged,
\* whether it raised, and the HTTP response (Flask answers 500 for an
\* unhandled exception).
Returned(d, lines, status, body) ==
    [store |-> d, lines |-> lines, raised |-> FALSE, status |-> status, body |-> body]

Raised(d, lines, exc) ==
    [store |-> d, lines |-> lines, raised |-> TRUE, status |-> 500,
     body |-> [error |-> exc]]

\* wrapper(): the entry line, the call, and the exit line, which is written
\* only when func returns (there is no try/finally around the call).
audit_log(name, out) ==
    <<Line("API Call", name)>> \o out.lines \o
    (IF out.raised THEN <<>> ELSE <<Line("API Response", name)>>)

(* ------------------------------ handlers ------------------------------ *)

\* Mutant: only the first required field is checked.
validate_first_field(data) == required_fields[1] \in DOMAIN data

validate_compliance_data(data) ==
    \A i \in 1..Len(required_fields) : required_fields[i] \in DOMAIN data

\* Mutant: only the required fields are copied from the payload.
NewRecord_required_only(data, t1, t2) ==
    [f \in (DOMAIN data \cap RequiredSet) \cup ServerFields |->
        CASE f = "created_at"    -> isoformat(t1)
          [] f = "last_modified" -> isoformat(t2)
          [] OTHER               -> data[f]]

\* {**data, "created_at": ..., "last_modified": ...}
NewRecord(data, t1, t2) ==
    [f \in DOMAIN data \cup ServerFields |->
        CASE f = "created_at"    -> isoformat(t1)
          [] f = "last_modified" -> isoformat(t2)
          [] OTHER               -> data[f]]

create_transaction(d, data, t1, t2) ==
    IF ~validate_compliance_data(data)
    THEN Returned(d, <<Line("warning", "create_transaction")>>, 400,
                  [error |-> "Invalid data format"])
    ELSE LET transaction_id == data["transaction_id"]
         IN  IF ~Hashable(transaction_id)
             THEN Raised(d, <<>>, "TypeError")
             ELSE Returned(SetItem(d, transaction_id, NewRecord(data, t1, t2)),
                           <<Line("info", "create_transaction")>>, 201,
                           [message |-> "Transaction created", id |-> transaction_id])

\* Mutant: tests that the store is non-empty instead of the key.
get_transaction_any(d, transaction_id) ==
    IF Len(d) = 0
    THEN Returned(d, <<>>, 404, [error |-> "Transaction not found"])
    ELSE Returned(d, <<>>, 200,
                  IF Contains(d, transaction_id) THEN GetItem(d, transaction_id)
                  ELSE d[1].value)

\* Mutant: compliance_data.pop(transaction_id) instead of a lookup.
get_transaction_pop(d, transaction_id) ==
    IF ~Contains(d, transaction_id)
    THEN Returned(d, <<>>, 404, [error |-> "Transaction not found"])
    ELSE Returned(DelItem(d, transaction_id), <<>>, 200, GetItem(d, transaction_id))

get_transaction(d, transaction_id) ==
    IF ~Contains(d, transaction_id)
    THEN Returned(d, <<>>, 404, [error |-> "Transaction not found"])
    ELSE Returned(d, <<>>, 200, GetItem(d, transaction_id))

list_transactions(d) ==
    Returned(d, <<>>, 200, [count |-> Len(d), transactions |-> Values(d)])

delete_transaction(d, transaction_id) ==
    IF Contains(d, transaction_id)
    THEN Returned(DelItem(d, transaction_id), <<>>, 200,
                  [message |-> "Transaction deleted"])
    ELSE Returned(d, <<>>, 404, [error |-> "Transaction not found"])

\* status_breakdown.get(status, 0)
Count(breakdown, status) ==
    IF status \in DOMAIN breakdown THEN breakdown[status] ELSE 0

\* The for loop of compliance_report over values[i..]: the tally so far, or
\* "TypeError" once a status cannot be hashed as a key of status_breakdown.
RECURSIVE Tally(_, _, _)
Tally(values, i, breakdown) ==
    IF i > Len(values) THEN [raised |-> FALSE, breakdown |-> breakdown]
    ELSE LET transaction == values[i]
             status == IF "status" \in DOMAIN transaction
                       THEN transaction["status"] ELSE JStr("unknown")
         IN  IF ~Hashable(status)
             THEN [raised |-> TRUE, breakdown |-> breakdown]
             ELSE Tally(values, i + 1,
                        [s \in DOMAIN breakdown \cup {status} |->
                            IF s = status THEN Count(breakdown, status) + 1
                            ELSE breakdown[s]])

Max(a, b) == IF a >= b THEN a ELSE b

\* compliant / max(total, 1) * 100 as the exact fraction num/den.
ComplianceRate(compliant, total) ==
    [num |-> compliant * 100, den |-> Max(total, 1)]

compliance_report(d, t) ==
    LET total_transactions == Len(d)
        tally == Tally(Values(d), 1, <<>>)
    IN  IF tally.raised
        THEN Raised(d, <<>>, "TypeError")
        ELSE Returned(d, <<Line("info", "compliance_report")>>, 200,
                 [report_date |-> isoformat(t),
                  total_transactions |-> total_transactions,
                  status_breakdown |-> tally.breakdown,
                  compliance_rate |->
                      ComplianceRate(Count(tally.breakdown, JStr("compliant")),
                                     total_transactions)])

health_check(d, t) ==
    Returned(d, <<>>, 200,
             [status |-> "healthy", timestamp |-> isoformat(t), version |-> "1.0.0"])

(* ------------------------------ history ------------------------------- *)

\* f with x mapped to y (x added to the domain when new).
Put(f, x, y) == [z \in DOMAIN f \cup {x} |-> IF z = x THEN y ELSE f[z]]

Without(f, S) == [z \in DOMAIN f \ S |-> f[z]]

(* ------------------------------ threads ------------------------------- *)

Threads == 1..NThreads

\* A worker thread that has not picked up a request.
Idle == [pc |-> "idle", op |-> "none", arg |-> <<>>, loc |-> <<>>,
         status |-> 0, body |-> <<>>]

(* ------------------------------ actions ------------------------------- *)

Init ==
    /\ compliance_data = <<>>
    /\ log = <<>>
    /\ request = [op |-> "none", arg |-> <<>>]
    /\ response = [status |-> 0, body |-> [error |-> "no request yet"]]
    /\ accepted = <<>>
    /\ life = <<>>
    /\ threads = [t \in Threads |-> Idle]

\* One audited request served from start to finish.
Serve(name, arg, out) ==
    /\ compliance_data' = out.store
    /\ log' = audit_log(name, out)
    /\ request' = [op |-> name, arg |-> arg]
    /\ response' = [status |-> out.status, body |-> out.body]
    /\ UNCHANGED threads

CreateTransaction ==
    \E data \in Payloads, t1 \in Clock, t2 \in Clock :
        LET out == create_transaction(compliance_data, data, t1, t2)
        IN  /\ Serve("create_transaction", data, out)
            /\ IF out.status = 201
               THEN /\ accepted' = Put(accepted, data["transaction_id"],
                                     [f \in DOMAIN data \cap {"transaction_id", "amount"} |-> data[f]])
                    /\ life' = Put(life, data["transaction_id"], "created")
               ELSE UNCHANGED <<accepted, life>>

GetTransaction ==
    \E id \in PathIds :
        /\ Serve("get_transaction", id,
                 get_transaction(compliance_data, PathParam(id)))
        /\ UNCHANGED <<accepted, life>>

ListTransactions ==
    /\ Serve("list_transactions", <<>>, list_transactions(compliance_data))
    /\ UNCHANGED <<accepted, life>>

DeleteTransaction ==
    \E id \in PathIds :
        LET out == delete_transaction(compliance_data, PathParam(id))
        IN  /\ Serve("delete_transaction", id, out)
            /\ accepted' = Without(accepted, {k \in DOMAIN accepted : UrlOf(k) = id})
            /\ life' = IF out.status = 200
                       THEN Put(life, PathParam(id), "deleted") ELSE life

ComplianceReport ==
    \E t \in Clock :
        /\ Serve("compliance_report", <<>>, compliance_report(compliance_data, t))
        /\ UNCHANGED <<accepted, life>>

\* /health is not wrapped by audit_log.
HealthCheck ==
    \E t \in Clock :
        LET out == health_check(compliance_data, t)
        IN  /\ compliance_data' = out.store
            /\ request' = [op |-> "health_check", arg |-> <<>>]
            /\ response' = [status |-> out.status, body |-> out.body]
            /\ UNCHANGED <<log, accepted, life, threads>>

Next ==
    \/ CreateTransaction
    \/ GetTransaction
    \/ ListTransactions
    \/ DeleteTransaction
    \/ ComplianceReport
    \/ HealthCheck

Spec == Init /\ [][Next]_vars

(* ------------------------ concurrent requests ------------------------- *)

\* Payloads of concurrent creates: two different ones for the same id, one
\* for another id, one lacking a field.  Statuses are strings, so that a
\* fault of the report in ConcSpec comes from the interleaving alone.
PayloadA ==
    Object(RequiredSet \cup {"note"}, JStr("1001"), JNum("1000.0"), JStr("compliant"))
PayloadB == Object(RequiredSet, JStr("1001"), JNum("250.5"), JStr("pending"))
PayloadC == Object(RequiredSet, JNum("1001"), JNum("1000.0"), JStr("pending"))
PayloadD ==
    Object(RequiredSet \ {"status"}, JStr("1001"), JNum("1000.0"), JStr("compliant"))

ConcPayloads == {PayloadA, PayloadB, PayloadC, PayloadD}

ConcRequests ==
    {[op |-> "create_transaction", arg |-> data] : data \in ConcPayloads}
    \cup {[op |-> "delete_transaction", arg |-> "1001"],
          [op |-> "list_transactions", arg |-> <<>>],
          [op |-> "compliance_report", arg |-> <<>>]}

\* The store left by creates served one after another.
StoreOf(payloads) ==
    LET t == CHOOSE c \in Clock : TRUE
        RECURSIVE Build(_)
        Build(n) == IF n = 0 THEN <<>>
                    ELSE SetItem(Build(n - 1), payloads[n]["transaction_id"],
                                 NewRecord(payloads[n], t, t))
    IN  Build(Len(payloads))

\* Stores the concurrent requests may find.
ConcStores == {StoreOf(<<>>), StoreOf(<<PayloadB>>), StoreOf(<<PayloadC, PayloadA>>)}

\* The variables of the one-at-a-time history, which concurrent requests
\* leave alone.
Sequential == <<request, response, accepted, life>>

\* Thread t moves to position pc with locals loc.
Goto(t, pc, loc) ==
    /\ threads' = [threads EXCEPT ![t].pc = pc, ![t].loc = loc]
    /\ UNCHANGED Sequential

\* Thread t's handler ends: func returned `body, status` to the wrapper, or
\* raised.  Flask answers 500 when the view raises, and also when it
\* returns None (make_response raises TypeError after the wrapper's exit
\* line).
Finish(t, lines, raised, status, body) ==
    /\ threads' = [threads EXCEPT ![t].pc = "done", ![t].loc = <<>>,
                                  ![t].status = status, ![t].body = body]
    /\ log' = log \o lines \o
              (IF raised THEN <<>> ELSE <<Line("API Response", threads[t].op)>>)
    /\ UNCHANGED Sequential

\* wrapper() logs the entry line and calls the view, which runs up to its
\* first operation on compliance_data.
Begin ==
    \E t \in Threads, r \in ConcRequests, t1 \in Clock, t2 \in Clock :
        /\ threads[t].pc = "idle"
        /\ UNCHANGED <<compliance_data, request, response, accepted, life>>
        /\ IF r.op = "create_transaction" /\ ~validate_compliance_data(r.arg)
           THEN /\ threads' = [threads EXCEPT ![t] =
                       [pc |-> "done", op |-> r.op, arg |-> r.arg, loc |-> <<>>,
                        status |-> 400, body |-> [error |-> "Invalid data format"]]]
                /\ log' = log \o <<Line("API Call", r.op), Line("warning", r.op),
                                   Line("API Response", r.op)>>
           ELSE /\ threads' = [threads EXCEPT ![t] =
                       [pc |-> CASE r.op = "create_transaction" -> "create_store"
                                 [] r.op = "delete_transaction" -> "delete_in"
                                 [] r.op = "list_transactions"  -> "list_len"
                                 [] r.op = "compliance_report"  -> "report_len",
                        op |-> r.op, arg |-> r.arg,
                        loc |-> IF r.op = "create_transaction"
                                THEN [transaction_id |-> r.arg["transaction_id"],
                                      record |-> NewRecord(r.arg, t1, t2)]
                                ELSE <<>>,
                        status |-> 0, body |-> <<>>]]
                /\ log' = Append(log, Line("API Call", r.op))

\* compliance_data[transaction_id] = {...}; log; return 201
CreateStore ==
    \E t \in Threads :
        /\ threads[t].pc = "create_store"
        /\ LET transaction_id == threads[t].loc.transaction_id
           IN  IF ~Hashable(transaction_id)
               THEN /\ UNCHANGED compliance_data
                    /\ Finish(t, <<>>, TRUE, 500, [error |-> "TypeError"])
               ELSE /\ compliance_data' =
                           SetItem(compliance_data, transaction_id, threads[t].loc.record)
                    /\ Finish(t, <<Line("info", "create_transaction")>>, FALSE, 201,
                              [message |-> "Transaction created", id |-> transaction_id])

\* if transaction_id in compliance_data:
DeleteIn ==
    \E t \in Threads :
        /\ threads[t].pc = "delete_in"
        /\ Goto(t, IF Contains(compliance_data, PathParam(threads[t].arg))
                   THEN "delete_del" ELSE "delete_not_in", <<>>)
        /\ UNCHANGED <<compliance_data, log>>

\* del compliance_data[transaction_id]; return 200.  KeyError when the key
\* has gone since the test.
DeleteDel ==
    \E t \in Threads :
        /\ threads[t].pc = "delete_del"
        /\ LET k == PathParam(threads[t].arg)
           IN  IF Contains(compliance_data, k)
               THEN /\ compliance_data' = DelItem(compliance_data, k)
                    /\ Finish(t, <<>>, FALSE, 200, [message |-> "Transaction deleted"])
               ELSE /\ UNCHANGED compliance_data
                    /\ Finish(t, <<>>, TRUE, 500, [error |-> "KeyError"])

\* if transaction_id not in compliance_data: return 404.  When the key has
\* appeared since the first test the function falls off its end and
\* returns None.
DeleteNotIn ==
    \E t \in Threads :
        /\ threads[t].pc = "delete_not_in"
        /\ UNCHANGED compliance_data
        /\ IF ~Contains(compliance_data, PathParam(threads[t].arg))
           THEN Finish(t, <<>>, FALSE, 404, [error |-> "Transaction not found"])
           ELSE Finish(t, <<>>, FALSE, 500, [error |-> "TypeError"])

\* "count": len(compliance_data)
ListLen ==
    \E t \in Threads :
        /\ threads[t].pc = "list_len"
        /\ Goto(t, "list_values", [count |-> Len(compliance_data)])
        /\ UNCHANGED <<compliance_data, log>>

\* "transactions": list(compliance_data.values()); return 200
ListValues ==
    \E t \in Threads :
        /\ threads[t].pc = "list_values"
        /\ UNCHANGED compliance_data
        /\ Finish(t, <<>>, FALSE, 200,
                  [count |-> threads[t].loc.count,
                   transactions |-> Values(compliance_data)])

\* total_transactions = len(compliance_data)
ReportLen ==
    \E t \in Threads :
        /\ threads[t].pc = "report_len"
        /\ Goto(t, "report_iter", [total_transactions |-> Len(compliance_data)])
        /\ UNCHANGED <<compliance_data, log>>

KeySeq(d) == [i \in 1..Len(d) |-> d[i].key]

\* iter(compliance_data.values()): the iterator remembers the size of the
\* dict and its position in the entries.
ReportIter ==
    \E t \in Threads :
        /\ threads[t].pc = "report_iter"
        /\ Goto(t, "report_next",
                [total_transactions |-> threads[t].loc.total_transactions,
                 status_breakdown |-> <<>>,
                 used |-> Len(compliance_data),
                 keys |-> KeySeq(compliance_data),
                 pos |-> 1])
        /\ UNCHANGED <<compliance_data, log>>

\* The rest of compliance_report once the loop has ended.
ReportDone(t, now) ==
    LET loc == threads[t].loc
    IN  Finish(t, <<Line("info", "compliance_report")>>, FALSE, 200,
               [report_date |-> isoformat(now),
                total_transactions |-> loc.total_transactions,
                status_breakdown |-> loc.status_breakdown,
                compliance_rate |->
                    ComplianceRate(Count(loc.status_breakdown, JStr("compliant")),
                                   loc.total_transactions)])

\* One iteration of the loop body on the entry at the iterator's position.
ReportVisit(t, now) ==
    LET loc == threads[t].loc
    IN  IF loc.pos > Len(compliance_data)
        THEN ReportDone(t, now)
        ELSE LET transaction == compliance_data[loc.pos].value
                 status == IF "status" \in DOMAIN transaction
                           THEN transaction["status"] ELSE JStr("unknown")
             IN  IF ~Hashable(status)
                 THEN Finish(t, <<>>, TRUE, 500, [error |-> "TypeError"])
                 ELSE /\ Goto(t, "report_next",
                              [loc EXCEPT
                                 !.status_breakdown =
                                     [s \in DOMAIN loc.status_breakdown \cup {status} |->
                                         IF s = status
                                         THEN Count(loc.status_breakdown, status) + 1
                                         ELSE loc.status_breakdown[s]],
                                 !.pos = loc.pos + 1])
                      /\ UNCHANGED log

\* next() on the values iterator, then the loop body or the end of the
\* loop.  The iterator raises RuntimeError when the dict has changed size;
\* when keys were replaced at the same size it either notices (RuntimeError)
\* or goes on from its position.
ReportNext ==
    \E t \in Threads, now \in Clock :
        /\ threads[t].pc = "report_next"
        /\ UNCHANGED compliance_data
        /\ IF Len(compliance_data) # threads[t].loc.used
           THEN Finish(t, <<>>, TRUE, 500, [error |-> "RuntimeError"])
           ELSE \/ ReportVisit(t, now)
                \/ /\ KeySeq(compliance_data) # threads[t].loc.keys
                   /\ Finish(t, <<>>, TRUE, 500, [error |-> "RuntimeError"])

ConcInit ==
    /\ compliance_data \in ConcStores
    /\ log = <<>>
    /\ request = [op |-> "none", arg |-> <<>>]
    /\ response = [status |-> 0, body |-> [error |-> "no request yet"]]
    /\ accepted = <<>>
    /\ life = <<>>
    /\ threads = [t \in Threads |-> Idle]

ConcNext ==
    \/ Begin
    \/ CreateStore
    \/ DeleteIn
    \/ DeleteDel
    \/ DeleteNotIn
    \/ ListLen
    \/ ListValues
    \/ ReportLen
    \/ ReportIter
    \/ ReportNext

ConcSpec == ConcInit /\ [][ConcNext]_vars

(* ------------------------------ claims -------------------------------- *)

Complete(data) == RequiredSet \subseteq DOMAIN data

IsRequest(name) == request.op = name

\* C1: a create whose JSON object holds all four required keys, whatever the
\* types of their values, is answered 201 with id equal to the submitted
\* transaction_id, and the store then holds a record under that id.
C1_CompleteCreateAnswers201 ==
    (IsRequest("create_transaction") /\ Complete(request.arg)) =>
        /\ response.status = 201
        /\ response.body.id = request.arg["transaction_id"]
        /\ \E i \in 1..Len(compliance_data) :
              compliance_data[i].key = request.arg["transaction_id"]

\* C2: a create whose payload lacks at least one required key is answered
\* 400 "Invalid data format" and leaves the store exactly as it was.
C2_IncompleteCreateRejected ==
    [][(request'.op = "create_transaction" /\ ~Complete(request'.arg)) =>
           /\ response'.status = 400
           /\ response'.body = [error |-> "Invalid data format"]
           /\ compliance_data' = compliance_data]_vars

C2_Witness ==
    /\ IsRequest("create_transaction")
    /\ ~Complete(request.arg)
    /\ response.status = 400
    /\ Len(compliance_data) = 2

\* C3: a GET on the id of an accepted transaction T, with no DELETE of T and
\* no other create of T since, is answered 200 with the transaction_id and
\* the amount that were submitted.
C3_CreateThenGetRoundTrip ==
    IsRequest("get_transaction") =>
        \A T \in DOMAIN accepted :
            UrlOf(T) = request.arg =>
                /\ response.status = 200
                /\ response.body["transaction_id"] = accepted[T]["transaction_id"]
                /\ response.body["amount"] = accepted[T]["amount"]

\* C4: DELETE of a stored id is answered 200, removes that record and no
\* other, and a later GET of the id (before a new create of it) is answered
\* 404; DELETE of an id not stored is answered 404 and changes nothing.
C4_DeleteRemovesExactlyOne ==
    [][/\ request'.op = "delete_transaction" =>
            LET k == PathParam(request'.arg)
            IN  IF Contains(compliance_data, k)
                THEN /\ response'.status = 200
                     /\ ~Contains(compliance_data', k)
                     /\ Len(compliance_data') = Len(compliance_data) - 1
                     /\ \A j \in Keys(compliance_data) \ {k} :
                           /\ Contains(compliance_data', j)
                           /\ GetItem(compliance_data', j) = GetItem(compliance_data, j)
                ELSE /\ response'.status = 404
                     /\ compliance_data' = compliance_data
       /\ (/\ request'.op = "get_transaction"
           /\ PathParam(request'.arg) \in DOMAIN life
           /\ life[PathParam(request'.arg)] = "deleted") =>
              response'.status = 404]_vars

C4_Witness ==
    /\ IsRequest("delete_transaction")
    /\ response.status = 200
    /\ Len(compliance_data) = 1
    /\ life[PathParam(request.arg)] = "deleted"

\* C5: GET is answered 404 "Transaction not found" when the id was never
\* created or was deleted after its latest create, and 200 exactly when the
\* id is a key of the store.
C5_GetFoundIffStored ==
    IsRequest("get_transaction") =>
        LET k == PathParam(request.arg)
        IN  /\ response.status = 200 <=> Contains(compliance_data, k)
            /\ (k \notin DOMAIN life \/ life[k] = "deleted") =>
                  /\ response.status = 404
                  /\ response.body = [error |-> "Transaction not found"]

C5_Witness ==
    /\ IsRequest("get_transaction")
    /\ PathParam(request.arg) \in DOMAIN life
    /\ life[PathParam(request.arg)] = "deleted"
    /\ response.status = 404
    /\ Len(compliance_data) = 1

\* Number of times record r occurs in the sequence of records recs.
Occurrences(recs, r) == Cardinality({i \in 1..Len(recs) : recs[i] = r})

\* C6: list is answered 200 with count equal to the number of stored
\* records and transactions holding exactly the stored records, each once.
C6_ListIsTheStore ==
    IsRequest("list_transactions") =>
        /\ response.status = 200
        /\ response.body.count = Len(compliance_data)
        /\ Len(response.body.transactions) = Len(compliance_data)
        /\ \A i \in 1..Len(compliance_data) :
              Occurrences(response.body.transactions, compliance_data[i].value) = 1

C6_Witness ==
    /\ IsRequest("list_transactions")
    /\ response.status = 200
    /\ Len(compliance_data) = 2
    /\ response.body.count = 2

RECURSIVE SumOver(_, _)
SumOver(f, S) ==
    IF S = {} THEN 0
    ELSE LET x == CHOOSE y \in S : TRUE IN f[x] + SumOver(f, S \ {x})

Compliant(d) ==
    Cardinality({i \in 1..Len(d) : d[i].value["status"] = JStr("compliant")})

\* C7: whatever the store holds, the report is answered 200 with
\* total_transactions equal to the number of records, status_breakdown
\* counts summing to it, and compliance_rate = 100 * compliant / total
\* (0 on the empty store).
C7_ReportTotals ==
    IsRequest("compliance_report") =>
        /\ response.status = 200
        /\ LET report == response.body
               total == Len(compliance_data)
           IN  /\ report.total_transactions = total
               /\ SumOver(report.status_breakdown, DOMAIN report.status_breakdown)
                     = report.total_transactions
               /\ IF total = 0
                  THEN report.compliance_rate.num = 0
                  ELSE report.compliance_rate.num * total
                         = 100 * Compliant(compliance_data) * report.compliance_rate.den

\* C8: a valid create whose transaction_id is already a key is answered 201,
\* replaces the record under that key as a whole, and leaves the number of
\* records and every other record unchanged.
C8_DuplicateCreateOverwrites ==
    [][(/\ request'.op = "create_transaction"
        /\ Complete(request'.arg)
        /\ Contains(compliance_data, request'.arg["transaction_id"])) =>
           LET P == request'.arg
               k == P["transaction_id"]
           IN  /\ response'.status = 201
               /\ Len(compliance_data') = Len(compliance_data)
               /\ \A i \in 1..Len(compliance_data) :
                     IF compliance_data[i].key = k
                     THEN /\ compliance_data'[i].key = k
                          /\ DOMAIN compliance_data'[i].value = DOMAIN P \cup ServerFields
                          /\ \A f \in DOMAIN P \ ServerFields :
                                compliance_data'[i].value[f] = P[f]
                     ELSE compliance_data'[i] = compliance_data[i]]_vars

\* The latest request created a key that was inserted before another key
\* still stored, so it overwrote a record.
C8_Witness ==
    /\ IsRequest("create_transaction")
    /\ response.status = 201
    /\ Len(compliance_data) = 2
    /\ compliance_data[1].key = request.arg["transaction_id"]
    /\ "note" \notin DOMAIN compliance_data[1].value

\* C9: every audited call writes an entry line and, later, an exit line
\* naming the same handler, whatever its outcome, and no exit line comes
\* without its entry line.
C9_EntryThenExit ==
    /\ \A i \in 1..Len(log) :
          log[i].kind = "API Call" =>
              \E j \in (i + 1)..Len(log) : log[j] = Line("API Response", log[i].op)
    /\ \A j \in 1..Len(log) :
          log[j].kind = "API Response" =>
              \E i \in 1..(j - 1) : log[i] = Line("API Call", log[j].op)

\* C10 as written: the stored record agrees with the payload on every
\* field the caller supplied, and carries created_at and last_modified.
C10_EveryCallerFieldKept ==
    (IsRequest("create_transaction") /\ response.status = 201) =>
        LET P == request.arg
            record == GetItem(compliance_data, P["transaction_id"])
        IN  /\ ServerFields \subseteq DOMAIN record
            /\ \A f \in DOMAIN P : record[f] = P[f]

ServerStamps == {isoformat(t) : t \in Clock}

\* C10, amended: the stored record agrees with the payload on every field
\* the caller supplied other than created_at and last_modified, holds no
\* further field, and its created_at and last_modified are the server's
\* timestamps, also when the caller supplied values for them.
C10_CallerFieldsKeptServerFieldsAssigned ==
    (IsRequest("create_transaction") /\ response.status = 201) =>
        LET P == request.arg
            record == GetItem(compliance_data, P["transaction_id"])
        IN  /\ DOMAIN record = DOMAIN P \cup ServerFields
            /\ \A f \in DOMAIN P \ ServerFields : record[f] = P[f]
            /\ record["created_at"] \in ServerStamps
            /\ record["last_modified"] \in ServerStamps

C10_Witness ==
    /\ IsRequest("create_transaction")
    /\ response.status = 201
    /\ "created_at" \in DOMAIN request.arg
    /\ request.arg["created_at"] \notin ServerStamps

\* C11: health_check is always answered 200 "healthy", leaves the store
\* unchanged and writes no audit log line; get_transaction,
\* list_transactions and compliance_report never change the store.
C11_ReadsHaveNoSideEffects ==
    [][/\ request'.op = "health_check" =>
            /\ response'.status = 200
            /\ response'.body.status = "healthy"
            /\ compliance_data' = compliance_data
            /\ log' = log
       /\ request'.op \in {"get_transaction", "list_transactions",
                           "compliance_report"} =>
            compliance_data' = compliance_data]_vars

C11_Witness ==
    /\ IsRequest("health_check")
    /\ response.status = 200
    /\ Len(compliance_data) = 2
    /\ Len(log) > 0

AllFields == RequiredSet \cup ServerFields

\* C12: every record is stored under the key equal to its own
\* transaction_id, no two entries share a key, and every record holds
\* transaction_id, amount, timestamp, status, created_at and last_modified.
C12_StoreInvariant ==
    /\ \A i \in 1..Len(compliance_data) :
          /\ AllFields \subseteq DOMAIN compliance_data[i].value
          /\ compliance_data[i].value["transaction_id"] = compliance_data[i].key
    /\ \A i, j \in 1..Len(compliance_data) :
          compliance_data[i].key = compliance_data[j].key => i = j

\* A store left by creates and a delete.
C12_Witness ==
    /\ Len(compliance_data) = 1
    /\ \E k \in DOMAIN life : life[k] = "deleted"
    /\ \E k \in DOMAIN life : life[k] = "created"

(* ------------------- claims on interleaved requests ------------------- *)

Done(t, name) == threads[t].pc = "done" /\ threads[t].op = name

\* The record is the payload's own fields plus the two server fields.
FromPayload(record, data) ==
    /\ DOMAIN record = DOMAIN data \cup ServerFields
    /\ \A f \in DOMAIN data \ ServerFields : record[f] = data[f]
    /\ \A f \in ServerFields : record[f] \in ServerStamps

\* Threads t and u have both served a create, for one id, with different
\* complete payloads, and no other request is around.
TwoCreates(t, u) ==
    /\ t # u
    /\ Done(t, "create_transaction") /\ Done(u, "create_transaction")
    /\ Complete(threads[t].arg) /\ Complete(threads[u].arg)
    /\ threads[t].arg # threads[u].arg
    /\ threads[t].arg["transaction_id"] = threads[u].arg["transaction_id"]
    /\ \A w \in Threads \ {t, u} : threads[w].pc = "idle"

\* The entries under keys other than k.
Others(d, k) == SelectSeq(d, LAMBDA e : e.key # k)

\* C13: when two creates with the same id and different valid payloads
\* interleave, both are answered 201 and the store then holds exactly one
\* record under that id, made of one of the two payloads in full and never
\* a mix of them; a create's write leaves the records under other ids as
\* they were.
C13_InterleavedCreates ==
    [][/\ \A t, u \in Threads :
            TwoCreates(t, u)' =>
                LET k == threads[t].arg["transaction_id"]
                IN  /\ threads'[t].status = 201 /\ threads'[u].status = 201
                    /\ Cardinality({i \in 1..Len(compliance_data') :
                                       compliance_data'[i].key = k}) = 1
                    /\ \E w \in {t, u} :
                          FromPayload(GetItem(compliance_data', k), threads[w].arg)
       /\ \A t \in Threads :
            threads[t].pc = "create_store" /\ threads'[t].pc = "done" =>
                LET k == threads[t].arg["transaction_id"]
                IN  Others(compliance_data', k) = Others(compliance_data, k)]_vars

\* Both creates for id "1001" have been served beside a record under
\* another id, and the second write replaced the first.
C13_Witness ==
    /\ \E t, u \in Threads : TwoCreates(t, u)
    /\ Len(compliance_data) = 2
    /\ Len(SelectSeq(log, LAMBDA l : l.kind = "info")) = 2

\* C14: however deletes and creates interleave, every delete is answered
\* 200 or 404 and never ends in an unhandled fault; of two interleaved
\* deletes of one id with no create beside them at most one is answered
\* 200, and then the other is answered 404.
C14_DeleteEnds200Or404 ==
    /\ \A t \in Threads :
          Done(t, "delete_transaction") => threads[t].status \in {200, 404}
    /\ \A t, u \in Threads :
          /\ t # u
          /\ Done(t, "delete_transaction") /\ Done(u, "delete_transaction")
          /\ threads[t].arg = threads[u].arg
          /\ \A w \in Threads : threads[w].op # "create_transaction"
          /\ threads[t].status = 200
          => threads[u].status = 404

\* C15: a report interleaved with creates and deletes is answered 200 and
\* the counts of its status_breakdown sum to its total_transactions.
C15_ReportConsistent ==
    \A t \in Threads :
        Done(t, "compliance_report") =>
            /\ threads[t].status = 200
            /\ SumOver(threads[t].body.status_breakdown,
                       DOMAIN threads[t].body.status_breakdown)
                   = threads[t].body.total_transactions

\* C16: a list interleaved with creates and deletes is answered with count
\* equal to the number of records in the transactions it returns.
C16_ListCountMatches ==
    \A t \in Threads :
        Done(t, "list_transactions") =>
            threads[t].body.count = Len(threads[t].body.transactions)
====
